---- MODULE Spec2Model ----
(***************************************************************************)
(* Model of powerhour_generator.py: main() and the helpers it calls.       *)
(*                                                                         *)
(* Durations are kept in tenths of a second (800 = 80.0 s) so that         *)
(* int(duration) is a real floor; start offsets, the fade duration and the *)
(* extraction length are whole seconds.                                    *)
(*                                                                         *)
(* Two specifications are defined.                                         *)
(*   Spec       a whole call of main(), from line 67.                      *)
(*   StageSpec  lines 101-129 of main(): the branch on the result of the   *)
(*              common-clip encode, the per-clip loop, the manifest and    *)
(*              the concatenation, started from every loudness_results     *)
(*              the measurement loop (lines 90-97) can leave behind.       *)
(* In Spec the call reencode_videos(common_clip, ..., {}) of line 101      *)
(* raises KeyError at line 55 before any engine is started, so Spec never  *)
(* gets past line 101; StageSpec examines the code after it on its own.    *)
(***************************************************************************)
EXTENDS Integers, Sequences, FiniteSets, TLC

\* ---------------------------------------------------------------- bounds
MaxFolder == 3          \* largest number of files in the input folder
FadeDurations == {5, 70}  \* values of the fade_duration argument that are tried
MaxListing == 61        \* largest folder of the specification of lines 76-86 alone
MaxLiveFolder == 2      \* largest folder of the specifications with fairness

\* ------------------------------------------------------ program constants
max_videos == 60        \* line 85
MinDuration == 800      \* line 93: duration >= 80 (tenths of a second)
ClipLength == 60        \* line 111: duration argument of the per-clip encode
EarliestStart == 10     \* line 107: random.randint(10, ...)
TailReserve == 70       \* line 107: int(duration) - 70

VARIABLES
    env,               \* what main() finds outside: tools, paths, listing, fade_duration
    pc,                \* the line main() is at
    outcome,           \* how the run ended ("running" until then)
    workspace,         \* TemporaryDirectory: "none", "present", "removed"
    video_files,       \* line 76 / line 86
    i,                 \* loop index of lines 90 and 106
    cur,               \* duration of the file being measured (line 91)
    loudness_results,  \* line 89: insertion-ordered dict, as a sequence of entries
    probed,            \* results get_video_duration received, in call order
    running,           \* the external subprocess that is running, or "none"
    calls,             \* every subprocess started, in order
    start_time,        \* line 107
    clip_list,         \* line 105
    failed,            \* line 105
    progress,          \* arguments of every draw_progress_bar call
    manifest,          \* concat_list.txt, lines 121-125
    output_file,       \* "absent", "valid", "partial"
    printed            \* messages printed by main()

vars == <<env, pc, outcome, workspace, video_files, i, cur, loudness_results,
          probed, running, calls, start_time, clip_list, failed, progress,
          manifest, output_file, printed>>

\* ------------------------------------------------------------ small helpers
Min(a, b) == IF a < b THEN a ELSE b
Max(a, b) == IF a > b THEN a ELSE b
Range(s) == {s[k] : k \in 1..Len(s)}

\* Injective sequences of length k over S: what random.sample(S, k) can return.
RECURSIVE Samples(_, _)
Samples(S, k) ==
    IF k = 0 THEN {<<>>}
    ELSE UNION {{<<x>> \o t : t \in Samples(S \ {x}, k - 1)} : x \in S}

\* random.sample(population, k), population being 1..n.  Up to MaxFolder files
\* every result is tried; of a larger population three results are tried: the
\* first k files, the last k files backwards, and k files from the second on.
random_sample(S, k) ==
    IF Cardinality(S) <= MaxFolder THEN Samples(S, k)
    ELSE LET n == Cardinality(S) IN
         { [j \in 1..k |-> j], [j \in 1..k |-> n + 1 - j], [j \in 1..k |-> (j % n) + 1] }

\* --------------------------------------------------- external tool outcomes
\* ffprobe: CalledProcessError, a string float() rejects, or a number.
DurError == [tag |-> "CalledProcessError", v |-> 0]
DurGarbage == [tag |-> "unparseable", v |-> 0]
DurValue(d) == [tag |-> "value", v |-> d]
DurOutcomes == {DurError, DurGarbage} \cup {DurValue(d) : d \in {0, 799, 800, 809, 810}}

\* ffmpeg loudnorm analysis: CalledProcessError, or output lines.  A line is
\* modelled by whether it holds a colon and by the text on each side of the
\* first colon.
Line(k, v) == [colon |-> TRUE, key |-> k, value |-> v]
Plain(t) == [colon |-> FALSE, key |-> t, value |-> ""]
RequiredKeys == {"input_i", "input_lra", "input_tp", "input_thresh", "target_offset"}
\* what ffmpeg prints with print_format=json: keys and values keep their quotes
JsonReport ==
    << Line("Duration", "00:02:00.50, start: 0.000000"), Plain("{"),
       Line("\"input_i\"", "\"-27.61\","), Line("\"input_tp\"", "\"-4.47\","),
       Line("\"input_lra\"", "\"18.06\","), Line("\"input_thresh\"", "\"-39.20\","),
       Line("\"target_offset\"", "\"0.58\""), Plain("}") >>
\* a report whose keys are exactly the names reencode_videos looks up
BareReport ==
    << Line("Duration", "00:02:00.50, start: 0.000000"),
       Line("input_i", "-27.61"), Line("input_tp", "-4.47"),
       Line("input_lra", "18.06"), Line("input_thresh", "-39.20"),
       Line("target_offset", "0.58") >>
NoColonReport == << Plain("{"), Plain("}") >>
LoudError == [tag |-> "CalledProcessError", lines |-> <<>>]
LoudOutput(ls) == [tag |-> "output", lines |-> ls]
LoudOutcomes == {LoudError, LoudOutput(NoColonReport), LoudOutput(JsonReport),
                 LoudOutput(BareReport)}

EmptyDict == [k \in {} |-> ""]

\* analyze_loudness, lines 38-43: one dict entry per line holding a colon
RECURSIVE ParseLoudness(_, _)
ParseLoudness(lines, acc) ==
    IF lines = <<>> THEN acc
    ELSE LET l == Head(lines)
             nxt == IF l.colon
                    THEN [k \in DOMAIN acc \cup {l.key} |->
                             IF k = l.key THEN l.value ELSE acc[k]]
                    ELSE acc
         IN ParseLoudness(Tail(lines), nxt)

\* analyze_loudness: None on CalledProcessError, else the parsed dict
NoneValue == [none |-> TRUE]
analyze_loudness(out) ==
    IF out.tag = "CalledProcessError" THEN NoneValue
    ELSE ParseLoudness(out.lines, EmptyDict)

\* Python truthiness of what analyze_loudness returns (line 95)
Truthy(info) == info # NoneValue /\ DOMAIN info # {}

\* LongEnough with the threshold excluded (duration > 80)
LongEnough_Strict(d) == d.tag = "value" /\ d.v # 0 /\ d.v > MinDuration

\* line 93: `duration and duration >= 80`
LongEnough(d) == d.tag = "value" /\ d.v # 0 /\ d.v >= MinDuration
\* get_video_duration, lines 21-30: None on CalledProcessError, else float()
\* of the output; float() of an unparseable string raises ValueError, which
\* nothing catches.
get_video_duration_raises(d) == d.tag = "unparseable"

\* lines 93-96 for one file: the entry added to loudness_results, if any
Retained(file, d, out) ==
    IF LongEnough(d) /\ Truthy(analyze_loudness(out))
    THEN << [file |-> file, duration |-> d.v, info |-> analyze_loudness(out)] >>
    ELSE << >>

\* reencode_videos, line 55: the f-string looks up five keys of audio_loudness
\* and raises KeyError when one is missing
reencode_raises(audio_loudness) == ~(RequiredKeys \subseteq DOMAIN audio_loudness)

\* reencode_videos, lines 51-64: the window and the fade filters of the command
reencode_command(kind, video_file, ss, duration, fade_duration) ==
    [kind |-> kind, file |-> video_file, ss |-> ss, t |-> duration,
     vf |-> <<"scale", "fade_in", "fade_out">>,
     fade_in_st |-> 0, fade_in_d |-> fade_duration,
     fade_out_st |-> Max(duration - fade_duration, 0), fade_out_d |-> fade_duration]

\* a subprocess that is not an encode (ffprobe, loudnorm analysis, concat)
tool_command(kind, video_file) ==
    [kind |-> kind, file |-> video_file, ss |-> 0, t |-> 0, vf |-> <<>>,
     fade_in_st |-> 0, fade_in_d |-> 0, fade_out_st |-> 0, fade_out_d |-> 0]

CommonClipFile == 0    \* the common clip, next to the folder's files 1..n

\* ------------------------------------------------------------------- Init
Envs ==
    [have_ffmpeg : BOOLEAN, have_ffprobe : BOOLEAN, folder_isdir : BOOLEAN,
     common_exists : BOOLEAN, listing : 0..MaxFolder, fade_duration : FadeDurations]

Init ==
    /\ env \in Envs
    /\ pc = "L68"
    /\ outcome = "running"
    /\ workspace = "none"
    /\ video_files = <<>>
    /\ i = 0
    /\ cur = DurError
    /\ loudness_results = <<>>
    /\ probed = <<>>
    /\ running = "none"
    /\ calls = <<>>
    /\ start_time = 0
    /\ clip_list = <<>>
    /\ failed = 0
    /\ progress = <<>>
    /\ manifest = <<>>
    /\ output_file = "absent"
    /\ printed = {}

\* ------------------------------------------------- leaving main()
\* a return before the `with` block: nothing to clean up
ReturnEarly(msg) ==
    /\ pc' = "done"
    /\ outcome' = "preflight_abort"
    /\ printed' = printed \cup {msg}

\* LeaveBlock without the cleanup the context manager performs
LeaveBlock_NoCleanup(how) ==
    /\ pc' = "done"
    /\ outcome' = how
    /\ workspace' = workspace
    /\ running' = "none"

\* leaving the `with TemporaryDirectory()` block of line 81, by return, by
\* falling off its end or by an exception: the directory is removed
LeaveBlock(how) ==
    /\ pc' = "done"
    /\ outcome' = how
    /\ workspace' = "removed"
    /\ running' = "none"

\* ------------------------------------------------------ pre-flight, 68-79
CheckTools ==
    /\ pc = "L68"
    /\ IF ~env.have_ffmpeg \/ ~env.have_ffprobe
       THEN ReturnEarly("no_tools")
       ELSE pc' = "L72" /\ UNCHANGED <<outcome, printed>>
    /\ UNCHANGED <<env, workspace, video_files, i, cur, loudness_results, probed,
                   running, calls, start_time, clip_list, failed, progress,
                   manifest, output_file>>

CheckPaths ==
    /\ pc = "L72"
    /\ IF ~env.folder_isdir \/ ~env.common_exists
       THEN ReturnEarly("no_paths")
       ELSE pc' = "L76" /\ UNCHANGED <<outcome, printed>>
    /\ UNCHANGED <<env, workspace, video_files, i, cur, loudness_results, probed,
                   running, calls, start_time, clip_list, failed, progress,
                   manifest, output_file>>

\* ListFolder without the empty-listing return of lines 77-79
ListFolder_NoCheck ==
    /\ pc = "L76"
    /\ video_files' = [k \in 1..env.listing |-> k]
    /\ pc' = "L81"
    /\ UNCHANGED <<env, outcome, printed, workspace, i, cur, loudness_results, probed,
                   running, calls, start_time, clip_list, failed, progress,
                   manifest, output_file>>

\* line 76: glob lists the folder; lines 77-79
ListFolder ==
    /\ pc = "L76"
    /\ video_files' = [k \in 1..env.listing |-> k]
    /\ IF video_files' = <<>>
       THEN ReturnEarly("no_files")
       ELSE pc' = "L81" /\ UNCHANGED <<outcome, printed>>
    /\ UNCHANGED <<env, workspace, i, cur, loudness_results, probed,
                   running, calls, start_time, clip_list, failed, progress,
                   manifest, output_file>>

\* lines 81-83
EnterWorkspace ==
    /\ pc = "L81"
    /\ workspace' = "present"
    /\ pc' = "L85"
    /\ UNCHANGED <<env, outcome, video_files, i, cur, loudness_results, probed,
                   running, calls, start_time, clip_list, failed, progress,
                   manifest, output_file, printed>>

\* SampleFiles without the cap of line 86: sample(video_files, len(video_files))
SampleFiles_NoCap ==
    /\ pc = "L85"
    /\ video_files' \in random_sample(Range(video_files), Len(video_files))
    /\ loudness_results' = <<>>
    /\ i' = 0
    /\ printed' = printed \cup {"analyzing"}
    /\ pc' = "L90"
    /\ UNCHANGED <<env, outcome, workspace, cur, probed, running, calls,
                   start_time, clip_list, failed, progress, manifest, output_file>>

\* lines 85-89
SampleFiles ==
    /\ pc = "L85"
    /\ video_files' \in random_sample(Range(video_files), Min(max_videos, Len(video_files)))
    /\ loudness_results' = <<>>
    /\ i' = 0
    /\ printed' = printed \cup {"analyzing"}
    /\ pc' = "L90"
    /\ UNCHANGED <<env, outcome, workspace, cur, probed, running, calls,
                   start_time, clip_list, failed, progress, manifest, output_file>>
\* ------------------------------------------------ measurement loop, 90-98
CurrentFile == video_files[i + 1]

\* line 91: get_video_duration starts ffprobe
ProbeStart ==
    /\ pc = "L90"
    /\ i < Len(video_files)
    /\ running' = "ffprobe"
    /\ calls' = Append(calls, tool_command("ffprobe", CurrentFile))
    /\ pc' = "L91"
    /\ UNCHANGED <<env, outcome, workspace, video_files, i, cur, loudness_results,
                   probed, start_time, clip_list, failed, progress, manifest,
                   output_file, printed>>

\* ProbeReturn probing the same file again after a CalledProcessError
ProbeReturn_Retry ==
    /\ pc = "L91"
    /\ \E d \in DurOutcomes :
        /\ probed' = Append(probed, [file |-> CurrentFile, d |-> d])
        /\ cur' = d
        /\ IF get_video_duration_raises(d)
           THEN LeaveBlock("ValueError") /\ UNCHANGED printed
           ELSE /\ running' = "none"
                /\ pc' = IF LongEnough(d) THEN "L94"
                         ELSE IF d = DurError THEN "L90" ELSE "L97"
                /\ printed' = IF d = DurError THEN printed \cup {"duration_error"}
                              ELSE printed
                /\ UNCHANGED <<outcome, workspace>>
    /\ UNCHANGED <<env, video_files, i, loudness_results, calls, start_time,
                   clip_list, failed, progress, manifest, output_file>>

\* lines 91-93: ffprobe exits; get_video_duration returns or raises
ProbeReturn ==
    /\ pc = "L91"
    /\ \E d \in DurOutcomes :
        /\ probed' = Append(probed, [file |-> CurrentFile, d |-> d])
        /\ cur' = d
        /\ IF get_video_duration_raises(d)
           THEN LeaveBlock("ValueError") /\ UNCHANGED printed
           ELSE /\ running' = "none"
                /\ pc' = IF LongEnough(d) THEN "L94" ELSE "L97"
                /\ printed' = IF d = DurError THEN printed \cup {"duration_error"}
                              ELSE printed
                /\ UNCHANGED <<outcome, workspace>>
    /\ UNCHANGED <<env, video_files, i, loudness_results, calls, start_time,
                   clip_list, failed, progress, manifest, output_file>>

\* line 94: analyze_loudness starts ffmpeg in analysis mode
AnalyzeStart ==
    /\ pc = "L94"
    /\ running' = "loudnorm"
    /\ calls' = Append(calls, tool_command("loudnorm", CurrentFile))
    /\ pc' = "L95"
    /\ UNCHANGED <<env, outcome, workspace, video_files, i, cur, loudness_results,
                   probed, start_time, clip_list, failed, progress, manifest,
                   output_file, printed>>

\* lines 94-96: the analysis exits; the file is kept when the dict is truthy
AnalyzeReturn ==
    /\ pc = "L95"
    /\ \E out \in LoudOutcomes :
        /\ loudness_results' = loudness_results \o Retained(CurrentFile, cur, out)
        /\ printed' = IF out = LoudError THEN printed \cup {"loudness_error"}
                      ELSE printed
    /\ running' = "none"
    /\ pc' = "L97"
    /\ UNCHANGED <<env, outcome, workspace, video_files, i, cur, probed, calls,
                   start_time, clip_list, failed, progress, manifest, output_file>>

\* line 97
MeasureProgress ==
    /\ pc = "L97"
    /\ progress' = Append(progress, <<i + 1, Len(video_files)>>)
    /\ i' = i + 1
    /\ pc' = "L90"
    /\ UNCHANGED <<env, outcome, workspace, video_files, cur, loudness_results,
                   probed, running, calls, start_time, clip_list, failed,
                   manifest, output_file, printed>>

\* line 98
EndMeasure ==
    /\ pc = "L90"
    /\ i = Len(video_files)
    /\ printed' = printed \cup {"finished_analyzing"}
    /\ pc' = "L100"
    /\ UNCHANGED <<env, outcome, workspace, video_files, i, cur, loudness_results,
                   probed, running, calls, start_time, clip_list, failed,
                   progress, manifest, output_file>>

\* ------------------------------------------------- common clip, 100-103
\* line 101: the loudness argument of the common-clip call is the literal {}
CommonClipLoudness == EmptyDict

\* lines 100-101 down to the start of ffmpeg in run_command (line 18)
CommonClipStart ==
    /\ pc = "L100"
    /\ IF reencode_raises(CommonClipLoudness)
       THEN LeaveBlock("KeyError") /\ UNCHANGED calls
       ELSE /\ running' = "encode_common"
            /\ calls' = Append(calls, reencode_command("common", CommonClipFile, 0,
                                   env.fade_duration, env.fade_duration))
            /\ pc' = "L101"
            /\ UNCHANGED <<outcome, workspace>>
    /\ UNCHANGED <<env, video_files, i, cur, loudness_results, probed, start_time,
                   clip_list, failed, progress, manifest, output_file, printed>>

\* CommonClipReturn with the `return` of line 103 missing
CommonClipReturn_NoAbort ==
    /\ pc = "L101"
    /\ \E ok \in BOOLEAN :
        printed' = IF ok THEN printed ELSE printed \cup {"common_failed"}
    /\ clip_list' = <<>>
    /\ failed' = 0
    /\ i' = 0
    /\ running' = "none"
    /\ pc' = "L106"
    /\ UNCHANGED <<env, outcome, workspace, video_files, cur, loudness_results,
                   probed, calls, start_time, progress, manifest, output_file>>

\* lines 101-105: ffmpeg exits; run_command returns returncode == 0
CommonClipReturn ==
    /\ pc = "L101"
    /\ \E ok \in BOOLEAN :
        IF ~ok
        THEN /\ LeaveBlock("common_return")
             /\ printed' = printed \cup {"common_failed"}
             /\ UNCHANGED <<clip_list, failed, i>>
        ELSE /\ clip_list' = <<>>
             /\ failed' = 0
             /\ i' = 0
             /\ running' = "none"
             /\ pc' = "L106"
             /\ UNCHANGED <<outcome, workspace, printed>>
    /\ UNCHANGED <<env, video_files, cur, loudness_results, probed, calls,
                   start_time, progress, manifest, output_file>>

\* ------------------------------------------------- per-clip loop, 106-118
CurrentJob == loudness_results[i + 1]

\* line 107: random.randint(a, b) raises ValueError when a > b
StartLow == EarliestStart
\* StartHigh reserving only the extraction length, not the trailing margin
StartHigh_NoMargin(duration) == (duration \div 10) - ClipLength
StartHigh(duration) == (duration \div 10) - TailReserve

\* lines 106-111, down to the start of ffmpeg in run_command
ClipStart ==
    /\ pc = "L106"
    /\ i < Len(loudness_results)
    /\ IF StartLow > StartHigh(CurrentJob.duration)
       THEN LeaveBlock("ValueError") /\ UNCHANGED <<start_time, calls>>
       ELSE \E st \in StartLow..StartHigh(CurrentJob.duration) :
              /\ start_time' = st
              /\ IF reencode_raises(CurrentJob.info)
                 THEN LeaveBlock("KeyError") /\ UNCHANGED calls
                 ELSE /\ running' = "encode_clip"
                      /\ calls' = Append(calls, reencode_command("clip", CurrentJob.file,
                                             st, ClipLength, env.fade_duration))
                      /\ pc' = "L111"
                      /\ UNCHANGED <<outcome, workspace>>
    /\ UNCHANGED <<env, video_files, i, cur, loudness_results, probed, clip_list,
                   failed, progress, manifest, output_file, printed>>

\* ClipReturn without the `failed += 1` of line 115
ClipReturn_NoCount ==
    /\ pc = "L111"
    /\ \E ok \in BOOLEAN :
        IF ok
        THEN clip_list' = Append(clip_list, i + 1) /\ UNCHANGED <<failed, printed>>
        ELSE /\ printed' = printed \cup {"clip_failed"}
             /\ UNCHANGED <<clip_list, failed>>
    /\ running' = "none"
    /\ pc' = "L116"
    /\ UNCHANGED <<env, outcome, workspace, video_files, i, cur, loudness_results,
                   probed, calls, start_time, progress, manifest, output_file>>

\* ClipReturn putting a finished clip at the front of clip_list
ClipReturn_Prepend ==
    /\ pc = "L111"
    /\ \E ok \in BOOLEAN :
        IF ok
        THEN clip_list' = <<i + 1>> \o clip_list /\ UNCHANGED <<failed, printed>>
        ELSE /\ failed' = failed + 1
             /\ printed' = printed \cup {"clip_failed"}
             /\ UNCHANGED clip_list
    /\ running' = "none"
    /\ pc' = "L116"
    /\ UNCHANGED <<env, outcome, workspace, video_files, i, cur, loudness_results,
                   probed, calls, start_time, progress, manifest, output_file>>

\* lines 111-115: ffmpeg exits; temp_clip_{i:04d}.mp4 is named by its ordinal
ClipReturn ==
    /\ pc = "L111"
    /\ \E ok \in BOOLEAN :
        IF ok
        THEN clip_list' = Append(clip_list, i + 1) /\ UNCHANGED <<failed, printed>>
        ELSE /\ failed' = failed + 1
             /\ printed' = printed \cup {"clip_failed"}
             /\ UNCHANGED clip_list
    /\ running' = "none"
    /\ pc' = "L116"
    /\ UNCHANGED <<env, outcome, workspace, video_files, i, cur, loudness_results,
                   probed, calls, start_time, progress, manifest, output_file>>

\* line 116
ClipProgress ==
    /\ pc = "L116"
    /\ progress' = Append(progress, <<i + 1, Len(video_files)>>)
    /\ i' = i + 1
    /\ pc' = "L106"
    /\ UNCHANGED <<env, outcome, workspace, video_files, cur, loudness_results,
                   probed, running, calls, start_time, clip_list, failed,
                   manifest, output_file, printed>>

\* EndClips leaving the loop whether or not jobs remain
EndClips_Early ==
    /\ pc = "L106"
    /\ i <= Len(loudness_results)
    /\ printed' = printed \cup {"processing_complete"}
    /\ pc' = "L120"
    /\ UNCHANGED <<env, outcome, workspace, video_files, i, cur, loudness_results,
                   probed, running, calls, start_time, clip_list, failed,
                   progress, manifest, output_file>>

\* line 118
EndClips ==
    /\ pc = "L106"
    /\ i = Len(loudness_results)
    /\ printed' = printed \cup {"processing_complete"}
    /\ pc' = "L120"
    /\ UNCHANGED <<env, outcome, workspace, video_files, i, cur, loudness_results,
                   probed, running, calls, start_time, clip_list, failed,
                   progress, manifest, output_file>>

\* ------------------------------------------------------ assembly, 120-129
CommonEntry == [common |-> TRUE, clip |-> 0]
SegmentEntry(c) == [common |-> FALSE, clip |-> c]

\* ConcatList writing the common clip before the first clip as well
RECURSIVE ConcatList_CommonFirst(_, _)
ConcatList_CommonFirst(clips, idx) ==
    IF clips = <<>> THEN <<>>
    ELSE <<CommonEntry>> \o <<SegmentEntry(Head(clips))>>
         \o ConcatList_CommonFirst(Tail(clips), idx + 1)

\* lines 122-125: the common clip before every clip but the first
RECURSIVE ConcatList(_, _)
ConcatList(clips, idx) ==
    IF clips = <<>> THEN <<>>
    ELSE (IF idx > 0 THEN <<CommonEntry>> ELSE <<>>)
         \o <<SegmentEntry(Head(clips))>> \o ConcatList(Tail(clips), idx + 1)

\* lines 120-125
WriteManifest ==
    /\ pc = "L120"
    /\ manifest' = ConcatList(clip_list, 0)
    /\ pc' = "L127"
    /\ UNCHANGED <<env, outcome, workspace, video_files, i, cur, loudness_results,
                   probed, running, calls, start_time, clip_list, failed,
                   progress, output_file, printed>>

\* lines 127-128, down to the start of ffmpeg in run_command
ConcatStart ==
    /\ pc = "L127"
    /\ running' = "concat"
    /\ calls' = Append(calls, tool_command("concat", CommonClipFile))
    /\ pc' = "L128"
    /\ UNCHANGED <<env, outcome, workspace, video_files, i, cur, loudness_results,
                   probed, start_time, clip_list, failed, progress, manifest,
                   output_file, printed>>

\* What the concat engine can answer: it cannot succeed on an empty list; when
\* it fails it may or may not leave a file behind.
ConcatAnswers ==
    {[ok |-> FALSE, file |-> "absent"], [ok |-> FALSE, file |-> "partial"]}
    \cup (IF manifest = <<>> THEN {} ELSE {[ok |-> TRUE, file |-> "valid"]})

\* ConcatReturn without the message of line 129
ConcatReturn_Silent ==
    /\ pc = "L128"
    /\ \E a \in ConcatAnswers : output_file' = a.file
    /\ LeaveBlock("end_of_main")
    /\ UNCHANGED <<env, video_files, i, cur, loudness_results, probed, calls,
                   start_time, clip_list, failed, progress, manifest, printed>>

\* lines 128-129 and the end of the `with` block
ConcatReturn ==
    /\ pc = "L128"
    /\ \E a \in ConcatAnswers :
        /\ output_file' = a.file
        /\ printed' = IF a.ok THEN printed ELSE printed \cup {"concat_failed"}
    /\ LeaveBlock("end_of_main")
    /\ UNCHANGED <<env, video_files, i, cur, loudness_results, probed, calls,
                   start_time, clip_list, failed, progress, manifest>>

\* ------------------------------------------------------- specifications
Next ==
    \/ CheckTools \/ CheckPaths \/ ListFolder \/ EnterWorkspace \/ SampleFiles
    \/ ProbeStart \/ ProbeReturn \/ AnalyzeStart \/ AnalyzeReturn
    \/ MeasureProgress \/ EndMeasure \/ CommonClipStart

Spec == Init /\ [][Next]_vars

\* What lines 90-97 can leave in loudness_results for the drawn files
PerFile(file) ==
    {Retained(file, d, out) : d \in DurOutcomes \ {DurGarbage}, out \in LoudOutcomes}

RECURSIVE MeasureAll(_)
MeasureAll(files) ==
    IF files = <<>> THEN {<<>>}
    ELSE {r \o rest : r \in PerFile(Head(files)), rest \in MeasureAll(Tail(files))}

\* main() at line 101, the common-clip engine running
StageInit ==
    /\ env \in {e \in Envs : /\ e.have_ffmpeg /\ e.have_ffprobe /\ e.folder_isdir
                             /\ e.common_exists /\ e.listing > 0}
    /\ video_files \in Samples(1..env.listing, Min(max_videos, env.listing))
    /\ loudness_results \in MeasureAll(video_files)
    /\ pc = "L101"
    /\ outcome = "running"
    /\ workspace = "present"
    /\ i = Len(video_files)
    /\ cur = DurError
    /\ probed = <<>>
    /\ running = "encode_common"
    /\ calls = << reencode_command("common", CommonClipFile, 0,
                                   env.fade_duration, env.fade_duration) >>
    /\ start_time = 0
    /\ clip_list = <<>>
    /\ failed = 0
    /\ progress = [k \in 1..Len(video_files) |-> <<k, Len(video_files)>>]
    /\ manifest = <<>>
    /\ output_file = "absent"
    /\ printed = {"analyzing", "finished_analyzing"}

StageNext ==
    \/ CommonClipReturn \/ ClipStart \/ ClipReturn \/ ClipProgress \/ EndClips
    \/ WriteManifest \/ ConcatStart \/ ConcatReturn

StageSpec == StageInit /\ [][StageNext]_vars
\* Lines 76-86 alone, for folders of up to MaxListing files: main() at line
\* 76 with the first two pre-flight checks passed.
SelectorInit ==
    /\ env \in [have_ffmpeg : {TRUE}, have_ffprobe : {TRUE}, folder_isdir : {TRUE},
                 common_exists : {TRUE}, listing : 0..MaxListing,
                 fade_duration : FadeDurations]
    /\ pc = "L76"
    /\ outcome = "running"
    /\ workspace = "none"
    /\ video_files = <<>>
    /\ i = 0
    /\ cur = DurError
    /\ loudness_results = <<>>
    /\ probed = <<>>
    /\ running = "none"
    /\ calls = <<>>
    /\ start_time = 0
    /\ clip_list = <<>>
    /\ failed = 0
    /\ progress = <<>>
    /\ manifest = <<>>
    /\ output_file = "absent"
    /\ printed = {}

SelectorNext == ListFolder \/ EnterWorkspace \/ SampleFiles

SelectorSpec == SelectorInit /\ [][SelectorNext]_vars

\* main() is sequential and every subprocess it waits for is taken to exit:
\* a step that can be taken is eventually taken.
\* The fair runs are explored for folders of up to MaxLiveFolder files.
LiveInit == Init /\ env.listing <= MaxLiveFolder

LiveSpec == LiveInit /\ [][Next]_vars /\ WF_vars(Next)

StageLiveInit == StageInit /\ env.listing <= MaxLiveFolder

StageLiveSpec == StageLiveInit /\ [][StageNext]_vars /\ WF_vars(StageNext)

\* ===================================================================
\* Properties
\* ===================================================================
CallsOf(kind) == SelectSeq(calls, LAMBDA c : c.kind = kind)
Position(seq, x) == CHOOSE k \in 1..Len(seq) : seq[k] = x
StageEntered == outcome # "common_return" /\ pc # "L101"

C2_CommonFailureAborts ==
    ("common_failed" \in printed) =>
        /\ pc = "done"
        /\ outcome = "common_return"
        /\ CallsOf("clip") = <<>>
        /\ CallsOf("concat") = <<>>
        /\ failed = 0
        /\ clip_list = <<>>
        /\ manifest = <<>>
        /\ output_file = "absent"

\* C2 witness: the common-clip encode failed while jobs were planned
C2_Witness ==
    /\ "common_failed" \in printed
    /\ outcome = "common_return"
    /\ Len(loudness_results) >= 2

\* C3 (as claimed): a run that passes the pre-flight checks and gets through
\* the measurement loop has started the engine for the common clip exactly
\* once, with the window starting at 0 and fade_duration long, by the time
\* it ends.
C3_CommonEncodedOnce ==
    (pc = "done" /\ workspace = "removed" /\ outcome # "ValueError") =>
        /\ Len(CallsOf("common")) = 1
        /\ CallsOf("common")[1].ss = 0
        /\ CallsOf("common")[1].t = env.fade_duration

ManifestWritten == pc \in {"L127", "L128"} \/ (pc = "done" /\ outcome = "end_of_main")

C5_ManifestShape ==
    (ManifestWritten /\ Len(clip_list) >= 1) =>
        LET n == Len(clip_list) IN
        /\ Len(manifest) = 2 * n - 1
        /\ \A k \in 1..Len(manifest) :
              IF k % 2 = 1
              THEN ~manifest[k].common /\ manifest[k].clip = clip_list[(k + 1) \div 2]
              ELSE manifest[k].common
        /\ \A c \in Range(clip_list) :
              Cardinality({k \in 1..Len(manifest) :
                              ~manifest[k].common /\ manifest[k].clip = c}) = 1
        /\ ~manifest[1].common
        /\ ~manifest[Len(manifest)].common
        /\ \A k \in 1..(Len(manifest) - 1) : ~(manifest[k].common /\ manifest[k + 1].common)

\* C5 witness: a manifest written from three segments
C5_Witness == ManifestWritten /\ Len(clip_list) = 3 /\ Len(manifest) = 5

\* C6: the segments of the manifest are in strictly increasing ordinal, and
\* their source files are in the order video_files was drawn in.
SegmentsOf(m) == SelectSeq(m, LAMBDA e : ~e.common)

C6_PlanningOrder ==
    ManifestWritten =>
        LET segs == SegmentsOf(manifest) IN
        \A p, q \in 1..Len(segs) :
            p < q =>
              /\ segs[p].clip < segs[q].clip
              /\ Position(video_files, loudness_results[segs[p].clip].file)
                   < Position(video_files, loudness_results[segs[q].clip].file)

\* C6 witness: job 2 failed, jobs 1 and 3 survive, and the files were not
\* drawn in listing order
C6_Witness ==
    /\ ManifestWritten
    /\ manifest = <<SegmentEntry(1), CommonEntry, SegmentEntry(3)>>
    /\ failed = 1
    /\ video_files[1] > video_files[2]

\* C7: no run that created the workspace ends with the workspace present.
C7_WorkspaceRemoved ==
    (pc = "done" /\ outcome # "preflight_abort") => workspace = "removed"

\* C7 witness: a run with a failed job whose concatenation failed as well
C7_Witness ==
    /\ pc = "done"
    /\ failed >= 1
    /\ Len(clip_list) >= 1
    /\ "concat_failed" \in printed
    /\ workspace = "removed"

\* C8: the workspace is created, a subprocess is started and an output file
\* is written only when every pre-flight check passed; a run a check stops
\* has printed its message and has done none of these.
PreflightPasses ==
    /\ env.have_ffmpeg /\ env.have_ffprobe
    /\ env.folder_isdir /\ env.common_exists
    /\ env.listing > 0

C8_PreflightFirst ==
    /\ (workspace # "none" \/ calls # <<>> \/ probed # <<>> \/ output_file # "absent")
          => PreflightPasses
    /\ (pc = "done" /\ ~PreflightPasses) =>
          /\ outcome = "preflight_abort"
          /\ printed \cap {"no_tools", "no_paths", "no_files"} # {}
          /\ workspace = "none"
          /\ calls = <<>>
          /\ output_file = "absent"
    /\ (pc \notin {"L68", "L72", "L76", "done"}) => workspace # "none" \/ pc = "L81"

\* C8 witness: the run stopped by the last check, the empty listing
C8_Witness ==
    /\ pc = "done"
    /\ outcome = "preflight_abort"
    /\ "no_files" \in printed
    /\ env.have_ffmpeg /\ env.have_ffprobe /\ env.folder_isdir /\ env.common_exists

\* C9: a file whose probe failed or measured less than 80 s gets no loudness
\* analysis, no entry in loudness_results and no per-clip encode; a file
\* measured at 80 s or more goes on to the loudness analysis.
Analysed(file) == \E k \in 1..Len(calls) : calls[k].kind = "loudnorm" /\ calls[k].file = file
Planned(file) == \E k \in 1..Len(loudness_results) : loudness_results[k].file = file
Encoded(file) == \E k \in 1..Len(calls) : calls[k].kind = "clip" /\ calls[k].file = file

C9_SelectionInvariant ==
    \A k \in 1..Len(probed) :
        LET r == probed[k] IN
        IF r.d.tag = "value" /\ r.d.v >= 800
        THEN Analysed(r.file) \/ (k = Len(probed) /\ pc = "L94")
        ELSE ~Analysed(r.file) /\ ~Planned(r.file) /\ ~Encoded(r.file)

\* C9 witness: one file measured 79.9 s and was dropped, one measured exactly
\* 80 s and was planned
C9_Witness ==
    /\ \E k \in 1..Len(probed) : probed[k].d = DurValue(799) /\ ~Planned(probed[k].file)
    /\ \E k \in 1..Len(probed) : probed[k].d = DurValue(800) /\ Planned(probed[k].file)

\* C10: every planned job has a non-empty offset range, and every start
\* offset drawn satisfies 10 <= start, start <= duration - 70 and
\* start + 60 + 10 <= duration.
OffsetOK(st, d) ==
    /\ 10 <= st
    /\ 10 * st <= d - 700
    /\ 10 * (st + 60 + 10) <= d

DurationOf(file) == loudness_results[CHOOSE k \in 1..Len(loudness_results) :
                                        loudness_results[k].file = file].duration

C10_OffsetInvariant ==
    /\ \A k \in 1..Len(loudness_results) :
          \E st \in 0..100 : OffsetOK(st, loudness_results[k].duration)
    /\ outcome # "ValueError"
    /\ \A k \in 1..Len(calls) :
          calls[k].kind = "clip" => OffsetOK(calls[k].ss, DurationOf(calls[k].file))
    /\ (pc = "done" /\ outcome = "KeyError") => OffsetOK(start_time, CurrentJob.duration)

\* C10 witness: offsets drawn for a file of exactly 80 s and one of exactly 81 s,
\* the latter at the top of its range
C10_Witness ==
    /\ \E k \in 1..Len(calls) :
          calls[k].kind = "clip" /\ DurationOf(calls[k].file) = 800 /\ calls[k].ss = 10
    /\ \E k \in 1..Len(calls) :
          calls[k].kind = "clip" /\ DurationOf(calls[k].file) = 810 /\ calls[k].ss = 11
\* C11 (as claimed): every entry of loudness_results, that is every planned
\* job, carries all five loudness measurements reencode_videos looks up.
C11_CompleteLoudness ==
    \A k \in 1..Len(loudness_results) :
        {"input_i", "input_lra", "input_tp", "input_thresh", "target_offset"}
            \subseteq DOMAIN loudness_results[k].info

\* C12 (as claimed): a run that entered the measurement loop does not end
\* before every drawn file has been probed and reported, whatever the probes
\* answered.
C12_MeasurementAbsorbed ==
    (pc = "done" /\ workspace = "removed") =>
        /\ Len(probed) = Len(video_files)
        /\ \A k \in 1..Len(video_files) :
              k <= Len(progress) /\ progress[k] = <<k, Len(video_files)>>

C15_Accounting ==
    /\ (pc \in {"L106", "L111"}) => Len(clip_list) + failed = i
    /\ (pc = "L116") => Len(clip_list) + failed = i + 1
    /\ (pc \in {"L120", "L127", "L128"} \/ (pc = "done" /\ outcome = "end_of_main")) =>
          Len(clip_list) + failed = Len(loudness_results)
    /\ (ManifestWritten /\ failed < Len(loudness_results)) =>
          Len(manifest) = 2 * (Len(loudness_results) - failed) - 1

\* C15 witness: three planned jobs, one failed: two segments, three entries
C15_Witness ==
    /\ pc = "done"
    /\ outcome = "end_of_main"
    /\ Len(loudness_results) = 3
    /\ failed = 1
    /\ Len(clip_list) = 2
    /\ Len(manifest) = 3
    /\ output_file = "valid"
\* C16: once the files are drawn, video_files holds min(60, |listing|)
\* pairwise distinct files of the listing; no file is probed, analysed or
\* encoded twice; at most 60 jobs are planned and the manifest has at most
\* 119 entries.
Sampled == pc \notin {"L68", "L72", "L76", "L81", "L85"} /\ outcome # "preflight_abort"
Distinct(seq) == \A p, q \in 1..Len(seq) : p # q => seq[p] # seq[q]
FilesOf(kind) == [k \in 1..Len(CallsOf(kind)) |-> CallsOf(kind)[k].file]

C16_BoundedDistinctSample ==
    Sampled =>
        /\ Len(video_files) = (IF env.listing < 60 THEN env.listing ELSE 60)
        /\ Distinct(video_files)
        /\ Range(video_files) \subseteq 1..env.listing
        /\ Distinct(FilesOf("ffprobe"))
        /\ Distinct(FilesOf("loudnorm"))
        /\ Distinct(FilesOf("clip"))
        /\ Len(loudness_results) <= 60
        /\ Len(loudness_results) <= Len(video_files)
        /\ 2 * Len(video_files) - 1 <= 119
        /\ Len(manifest) <= 119

\* C16 witness: 60 files drawn from a folder of 61
C16_Witness ==
    /\ pc = "L90"
    /\ env.listing = 61
    /\ Len(video_files) = 60
    /\ video_files[1] = 61
\* C17: the stages (measurement, common clip, per-clip encodes, assembly)
\* are passed through in this order and none is re-entered; the subprocesses
\* are started in stage order; the common-clip encode starts only after every
\* drawn file was measured, the concatenation only after every job finished;
\* main() waits while a subprocess runs and starts one only when none runs.
StageOf(p) ==
    CASE p \in {"L68", "L72", "L76", "L81", "L85"} -> 0
      [] p \in {"L90", "L91", "L94", "L95", "L97"} -> 1
      [] p \in {"L100", "L101"} -> 2
      [] p \in {"L106", "L111", "L116"} -> 3
      [] p \in {"L120", "L127", "L128"} -> 4
      [] OTHER -> 5

KindStage(kind) ==
    CASE kind \in {"ffprobe", "loudnorm"} -> 1
      [] kind = "common" -> 2
      [] kind = "clip" -> 3
      [] OTHER -> 4

C17_StateOrder ==
    /\ \A j, k \in 1..Len(calls) :
          j < k => KindStage(calls[j].kind) <= KindStage(calls[k].kind)
    /\ (StageOf(pc) \in 2..4) =>
          /\ Len(progress) >= Len(video_files)
          /\ \A k \in 1..Len(video_files) : progress[k] = <<k, Len(video_files)>>
    /\ (StageOf(pc) = 4) =>
          /\ i = Len(loudness_results)
          /\ Len(CallsOf("clip")) = Len(loudness_results)
    /\ (running # "none") => pc \in {"L91", "L95", "L101", "L111", "L128"}
    /\ (pc \in {"L91", "L95", "L101", "L111", "L128"}) => running # "none"

C17_StepOrder ==
    /\ StageOf(pc') >= StageOf(pc)
    /\ (running' # running /\ running' # "none") => running = "none"
    /\ (Len(calls') > Len(calls)) => (running = "none" /\ running' # "none")

ClipReports == SubSeq(progress, Len(video_files) + 1, Len(progress))

C20_NoRetry ==
    /\ Distinct(FilesOf("ffprobe")) /\ Range(FilesOf("ffprobe")) \subseteq Range(video_files)
    /\ Distinct(FilesOf("loudnorm")) /\ Range(FilesOf("loudnorm")) \subseteq Range(video_files)
    /\ Len(CallsOf("common")) <= 1
    /\ Distinct(FilesOf("clip")) /\ Len(CallsOf("clip")) <= Len(loudness_results)
    /\ Len(CallsOf("concat")) <= 1

C20_Terminates == <>(pc = "done") /\ [](C20_NoRetry) /\ [][pc # "done"]_vars

\* C20 witness: a run that ended after probing and analysing two files
C20_Witness ==
    /\ pc = "done"
    /\ Len(video_files) = 2
    /\ Len(CallsOf("ffprobe")) = 2
    /\ Len(CallsOf("loudnorm")) = 2
====
